---- MODULE Spec2Model ----
(***************************************************************************)
(* A model of backend/main.py of LUTForge AI: the 3D LUT synthesis engine  *)
(* (tonal statistics, adaptive-blend grid, statistical transfer adapter,   *)
(* .cube codec) and the generate_lut request handler that drives it.       *)
(*                                                                         *)
(* Numbers.  The program computes in floating point.  The model computes   *)
(* in fixed point with eight decimals: a real x is the integer x * Scale,  *)
(* and every product or quotient is rounded down to that resolution, as    *)
(* every floating-point operation rounds to the resolution of its format.  *)
(* The text codec prints six decimals, so a grid value carries two more    *)
(* digits than a data line can hold.                                       *)
(***************************************************************************)
EXTENDS Integers, Sequences, FiniteSets, TLC

VARIABLES
    pc,              \* position of the operation under way
    source_img,      \* generate_lut / generate_lut_from_color_transfer: source image
    analysis_result, \* generate_lut: the ColorMatcherResponse of the AI analysis
    look,            \* generate_lut: the catalog entry selected
    reference_img,   \* the reference image
    transfer,        \* outcome of ColorMatcher.transfer: "ok", "raised" or None
    ref_analysis,    \* create_adaptive_lut: the statistics record it was given
    lut_array,       \* the grid (lut / lut_array in the source)
    cube_content,    \* the encoded text of the grid, in pages
    lut_report,      \* the result of analyze_lut_content
    response,        \* what the operation handed to its caller
    catalog,         \* the module-level dict CINEMATIC_LOOKS
    upload,          \* generate_lut: the uploaded file
    ai_reply,        \* generate_lut: what the AI service answered
    method,          \* the transfer method handed to the adapter
    path,            \* which path of the adapter produced the grid
    np_random,       \* the process-wide generator behind np.random
    parked,          \* the locals of the request suspended at an await
    color_in,        \* apply_professional_color_grading: its input_color
    source_stats,    \* the record of analyze_image_characteristics for the source
    reference_stats  \* the same for the reference

vars == <<pc, source_img, analysis_result, look, reference_img, transfer,
          ref_analysis, lut_array, cube_content, lut_report, response,
          catalog, upload, ai_reply, method, path, np_random, parked,
          color_in, source_stats, reference_stats>>

gradingVars == <<color_in, source_stats, reference_stats>>

\* Python's None: for a variable that holds a record, a sequence or a grid, and
\* for one that holds a name
None == <<>>
NoName == "None"

\* no color is being graded
NoGrading == color_in = None /\ source_stats = None /\ reference_stats = None

---------------------------------------------------------------------------
(* Fixed-point arithmetic *)

Scale == 10^8
Base == 10^4

\* n/1000 and n/100 as fixed-point numbers
Thousandth == 10^5
Hundredth == 10^6
Milli(n) == n * Thousandth
Centi(n) == n * Hundredth

Abs(x) == IF x < 0 THEN -x ELSE x
Min(x, y) == IF x < y THEN x ELSE y
Max(x, y) == IF x > y THEN x ELSE y

\* a * b of two fixed-point numbers, rounded down, without leaving 32 bits
MulFix(a, b) ==
    LET a1 == a \div Base
        a0 == a % Base
        b1 == b \div Base
        b0 == b % Base
    IN  a1 * b1 + ((a1 * b0 + a0 * b1 + ((a0 * b0) \div Base)) \div Base)

\* x * (n / 100) and x * (n / 1000) for a fixed-point x, rounded down
MulCenti(x, n) == (x \div 100) * n + ((x % 100) * n) \div 100
MulMilli(x, n) == (x \div 1000) * n + ((x % 1000) * n) \div 1000

\* the integer quotient n / d (d > 0) as a fixed-point number, rounded down
Frac(n, d) ==
    ((n * Base) \div d) * Base + (((n * Base) % d) * Base) \div d

\* k in d, of a Python dict
HasKey(d, k) == k \in DOMAIN d

\* np.clip(x, 0, 1)
clip01(x) == IF x < 0 THEN 0 ELSE IF x > Scale THEN Scale ELSE x

\* np.clip(x, lo, hi)
clip(x, lo, hi) == IF x < lo THEN lo ELSE IF x > hi THEN hi ELSE x

Chan == 1..3

---------------------------------------------------------------------------
(* Images and colors.  A color is <<R, G, B>>; an image is the sequence of *)
(* its pixels in row-major order (the statistics never look at a pixel's   *)
(* place, only at its color).                                              *)

LUT_SIZE == 33

Color(r, g, b) == <<r, g, b>>

\* 0.299 R + 0.587 G + 0.114 B
luminance(c) ==
    MulMilli(c[1], 299) + MulMilli(c[2], 587) + MulMilli(c[3], 114)

RECURSIVE SumChannel(_, _, _)
SumChannel(img, mask, c) ==
    IF mask = {} THEN 0
    ELSE LET i == CHOOSE j \in mask : TRUE
         IN  img[i][c] + SumChannel(img, mask \ {i}, c)

\* np.mean(img[mask], axis=0) for a non-empty mask
MeanColor(img, mask) ==
    [c \in Chan |-> SumChannel(img, mask, c) \div Cardinality(mask)]

\* np.argmax: the first index holding the greatest value
ArgMax(v) ==
    CHOOSE i \in DOMAIN v :
        /\ \A j \in DOMAIN v : v[j] <= v[i]
        /\ \A j \in DOMAIN v : j < i => v[j] < v[i]

MaxOf(v) == v[ArgMax(v)]
MinOf(v) == CHOOSE x \in {v[i] : i \in DOMAIN v} : \A j \in DOMAIN v : x <= v[j]

\* masks whose shadows take the pixels on the lower threshold too
BandMasksOverlapping(lum, lo, hi) ==
    [shadows |-> {i \in DOMAIN lum : lum[i] <= lo},
     midtones |-> {i \in DOMAIN lum : lum[i] >= lo /\ lum[i] <= hi},
     highlights |-> {i \in DOMAIN lum : lum[i] > hi}]

\* The three masks of an extractor, from the luminance of each pixel and the
\* two thresholds: luminance < lo, (luminance >= lo) & (luminance <= hi),
\* luminance > hi (lines 421-423 and 551-553).
BandMasks(lum, lo, hi) ==
    [shadows |-> {i \in DOMAIN lum : lum[i] < lo},
     midtones |-> {i \in DOMAIN lum : lum[i] >= lo /\ lum[i] <= hi},
     highlights |-> {i \in DOMAIN lum : lum[i] > hi}]

\* the luminance of each pixel of an image
LuminanceOf(img) == [i \in DOMAIN img |-> luminance(img[i])]

analyze_reference_colors(ref_img) ==
    LET px == DOMAIN ref_img
        masks == BandMasks(LuminanceOf(ref_img), Centi(30), Centi(70))
        shadows_mask == masks.shadows
        midtones_mask == masks.midtones
        highlights_mask == masks.highlights
        shadows_avg == IF shadows_mask # {} THEN MeanColor(ref_img, shadows_mask)
                       ELSE Color(Centi(10), Centi(10), Centi(10))
        midtones_avg == IF midtones_mask # {} THEN MeanColor(ref_img, midtones_mask)
                        ELSE Color(Centi(50), Centi(50), Centi(50))
        highlights_avg == IF highlights_mask # {} THEN MeanColor(ref_img, highlights_mask)
                          ELSE Color(Centi(90), Centi(90), Centi(90))
        overall_avg == MeanColor(ref_img, px)
        warm == overall_avg[1] > overall_avg[3]
        max_channel == ArgMax(overall_avg)
    IN  [dominant_colors |-> [shadows |-> shadows_avg,
                              midtones |-> midtones_avg,
                              highlights |-> highlights_avg],
         temperature_bias |-> IF warm THEN "warm" ELSE "cool",
         warmth_strength |-> IF warm THEN (overall_avg[1] - overall_avg[3]) * 2
                             ELSE (overall_avg[3] - overall_avg[1]) * 2,
         color_cast |-> IF max_channel = 1 THEN "red"
                        ELSE IF max_channel = 2 THEN "green" ELSE "blue",
         cast_strength |-> MaxOf(overall_avg) - MinOf(overall_avg)]

\* the input color of voxel (r, g, b): (r/(N-1), g/(N-1), b/(N-1))
InputColor(r, g, b) ==
    Color(Frac(r, LUT_SIZE - 1), Frac(g, LUT_SIZE - 1), Frac(b, LUT_SIZE - 1))

\* lines 507-534 of create_adaptive_lut: the band shift toward ref by influence
\* (in hundredths), then the temperature bias
AdaptiveShift(input, lum, ref, influence, is_warm, gain, cut) ==
    LET shifted_r == input[1] + MulCenti(ref[1] - lum, influence)
        shifted_g == input[2] + MulCenti(ref[2] - lum, influence)
        shifted_b == input[3] + MulCenti(ref[3] - lum, influence)
    IN  IF is_warm
        THEN Color(MulFix(shifted_r, gain), shifted_g, MulFix(shifted_b, cut))
        ELSE Color(MulFix(shifted_r, cut), shifted_g, MulFix(shifted_b, gain))

\* the loop body with the shadows' shift applied to the darkest voxels too
AdaptiveBlendNoSkip(ra, input, lum, is_warm, gain, cut) ==
    IF lum < Centi(33)
    THEN AdaptiveShift(input, lum, ra.dominant_colors.shadows,
                       15, is_warm, gain, cut)
    ELSE IF lum > Centi(66)
    THEN AdaptiveShift(input, lum, ra.dominant_colors.highlights,
                       12, is_warm, gain, cut)
    ELSE AdaptiveShift(input, lum, ra.dominant_colors.midtones,
                       18, is_warm, gain, cut)

\* lines 498-534: the output for one input color, given its luminance, before
\* it is clipped
AdaptiveBlend(ra, input, lum, is_warm, gain, cut) ==
    IF lum > Centi(2)
    THEN IF lum < Centi(33)
         THEN AdaptiveShift(input, lum, ra.dominant_colors.shadows,
                            15, is_warm, gain, cut)
         ELSE IF lum > Centi(66)
         THEN AdaptiveShift(input, lum, ra.dominant_colors.highlights,
                            12, is_warm, gain, cut)
         ELSE AdaptiveShift(input, lum, ra.dominant_colors.midtones,
                            18, is_warm, gain, cut)
    ELSE input

\* np.clip(output_color, 0, 1)
ClipColor(output) == Color(clip01(output[1]), clip01(output[2]), clip01(output[3]))

\* the value stored without the clip
AdaptiveOutputUnclipped(ra, input, lum, is_warm, gain, cut) ==
    AdaptiveBlend(ra, input, lum, is_warm, gain, cut)

\* lines 498-537: the value stored for one input color
AdaptiveOutput(ra, input, lum, is_warm, gain, cut) ==
    ClipColor(AdaptiveBlend(ra, input, lum, is_warm, gain, cut))

\* the warmth strength without its cap of 0.3
WarmthStrengthUncapped(ra) ==
    IF HasKey(ra, "warmth_strength") THEN ra.warmth_strength ELSE Centi(10)

\* min(ref_analysis.get('warmth_strength', 0.1), 0.3)
WarmthStrength(ra) ==
    Min(IF HasKey(ra, "warmth_strength") THEN ra.warmth_strength ELSE Centi(10),
        Centi(30))

\* 1 + |temp_adjustment| * warmth_strength: the factor of the channel the bias favors
TemperatureGain(ra) == Scale + MulFix(Centi(5), WarmthStrength(ra))

\* 1 - |temp_adjustment| * warmth_strength * 0.7: the factor of the opposite channel
TemperatureCut(ra) == Scale - MulFix(MulFix(Centi(5), WarmthStrength(ra)), Centi(70))

\* The body of create_adaptive_lut's loop: the value stored at lut[r, g, b].
AdaptiveVoxelOf(ra, input, is_warm, gain, cut) ==
    AdaptiveOutput(ra, input, luminance(input), is_warm, gain, cut)

AdaptiveVoxel(ra, r, g, b) ==
    AdaptiveVoxelOf(ra, InputColor(r, g, b), ra.temperature_bias = "warm",
                    TemperatureGain(ra), TemperatureCut(ra))

\* range(LUT_SIZE - 1): an axis one index short
AxisShort == 0..(LUT_SIZE - 2)

\* range(LUT_SIZE)
Axis == 0..(LUT_SIZE - 1)

AdaptiveGrid(ra, is_warm, gain, cut) ==
    [r \in Axis |-> [g \in Axis |-> [b \in Axis |->
        AdaptiveVoxelOf(ra, InputColor(r, g, b), is_warm, gain, cut)]]]

create_adaptive_lut(ra) ==
    AdaptiveGrid(ra, ra.temperature_bias = "warm", TemperatureGain(ra), TemperatureCut(ra))

---------------------------------------------------------------------------
(* The outcome of a call: a value returned or an exception raised.         *)

Ok(v) == [ok |-> TRUE, value |-> v]
Raise(e) == [ok |-> FALSE, exc |-> e]


---------------------------------------------------------------------------
(* Tonal statistics of the source image *)

\* a / b (b > 0) of two fixed-point numbers, rounded down; quotients of 20 and
\* more, far above every threshold the program compares a ratio with, saturate
RECURSIVE LongDiv(_, _, _)
LongDiv(rem, d, digits) ==
    IF digits = 0 THEN 0
    ELSE (((rem * 10) \div d) * (10^(digits - 1))) + LongDiv((rem * 10) % d, d, digits - 1)

DivFix(a, b) ==
    IF a \div b >= 20 THEN 20 * Scale
    ELSE (a \div b) * Scale + LongDiv(a % b, b, 8)

\* the integer square root, by bisection on lo..hi
RECURSIVE ISqrtIn(_, _, _)
ISqrtIn(n, lo, hi) ==
    IF lo >= hi THEN lo
    ELSE LET mid == (lo + hi + 1) \div 2
         IN  IF mid * mid <= n THEN ISqrtIn(n, mid, hi) ELSE ISqrtIn(n, lo, mid - 1)

\* the square root of a fixed-point number in [0, 1], to four decimals
SqrtFix(x) == ISqrtIn(x, 0, Base) * Base

RECURSIVE SumOver(_, _)
SumOver(f, mask) ==
    IF mask = {} THEN 0
    ELSE LET i == CHOOSE j \in mask : TRUE
         IN  f[i] + SumOver(f, mask \ {i})

\* np.mean(f[mask]) for a non-empty mask
MeanOver(f, mask) == SumOver(f, mask) \div Cardinality(mask)

\* (x * 255).astype(np.uint8) for x in [0, 1]
ToUint8(x) == ((x \div Base) * 255 + ((x % Base) * 255) \div Base) \div Base

\* the S channel of cv2.COLOR_RGB2HSV on uint8 pixels, divided by 255
Saturation(p) ==
    LET v == Max(ToUint8(p[1]), Max(ToUint8(p[2]), ToUint8(p[3])))
        m == Min(ToUint8(p[1]), Min(ToUint8(p[2]), ToUint8(p[3])))
        s == IF v = 0 THEN 0 ELSE (2 * 255 * (v - m) + v) \div (2 * v)
    IN  Frac(s, 255)

\* an estimate whose comparisons take the thresholds in
estimate_color_temperature_inclusive(img) ==
    LET px == DOMAIN img
        red_avg == MeanOver([i \in px |-> img[i][1]], px)
        blue_avg == MeanOver([i \in px |-> img[i][3]], px)
        rb_ratio == DivFix(red_avg, blue_avg)
    IN  IF blue_avg > 0
        THEN IF rb_ratio >= Centi(110) THEN 3200
             ELSE IF rb_ratio <= Centi(90) THEN 6500
             ELSE 5500
        ELSE 5500

estimate_color_temperature(img) ==
    LET px == DOMAIN img
        red_avg == MeanOver([i \in px |-> img[i][1]], px)
        blue_avg == MeanOver([i \in px |-> img[i][3]], px)
        rb_ratio == DivFix(red_avg, blue_avg)
    IN  IF blue_avg > 0
        THEN IF rb_ratio > Centi(110) THEN 3200
             ELSE IF rb_ratio < Centi(90) THEN 6500
             ELSE 5500
        ELSE 5500

\* (green_avg - rg_avg) * 100.  A tint is held with six decimals (the integer
\* tint * 10^6), which is the fixed-point difference of the averages itself.
estimate_tint(img) ==
    LET px == DOMAIN img
        green_avg == MeanOver([i \in px |-> img[i][2]], px)
        rg_avg == (MeanOver([i \in px |-> img[i][1]], px)
                   + MeanOver([i \in px |-> img[i][3]], px)) \div 2
    IN  green_avg - rg_avg

TintUnit == 10^6

analyze_image_characteristics(img) ==
    LET px == DOMAIN img
        lum == LuminanceOf(img)
        sat == [i \in px |-> Saturation(img[i])]
        masks == BandMasks(lum, Centi(25), Centi(75))
        shadows_mask == masks.shadows
        midtones_mask == masks.midtones
        highlights_mask == masks.highlights
        lum_mean == MeanOver(lum, px)
        variance == MeanOver([i \in px |-> MulFix(lum[i] - lum_mean, lum[i] - lum_mean)], px)
        Band(mask, rgb, s, l) ==
            [rgb_avg |-> IF mask # {} THEN MeanColor(img, mask) ELSE rgb,
             saturation_avg |-> IF mask # {} THEN MeanOver(sat, mask) ELSE s,
             luminance_avg |-> IF mask # {} THEN MeanOver(lum, mask) ELSE l]
    IN  [shadows |-> Band(shadows_mask, Color(Centi(10), Centi(10), Centi(10)),
                          Centi(30), Centi(15)),
         midtones |-> Band(midtones_mask, Color(Centi(50), Centi(50), Centi(50)),
                           Centi(50), Centi(50)),
         highlights |-> Band(highlights_mask, Color(Centi(90), Centi(90), Centi(90)),
                             Centi(20), Centi(85)),
         overall |-> [temperature |-> estimate_color_temperature(img),
                      tint |-> estimate_tint(img),
                      contrast |-> SqrtFix(variance),
                      saturation_avg |-> MeanOver(sat, px)]]

---------------------------------------------------------------------------
(* The statistical transfer adapter *)

\* the band of a color by its luminance, lines 616-630
GradingBand(lum) ==
    IF lum < Centi(25) THEN "shadows"
    ELSE IF lum > Centi(75) THEN "highlights" ELSE "midtones"

\* the shift from the source's band color to the reference's, not limited
ColorShiftUnlimited(target_rgb, source_rgb) ==
    [c \in Chan |-> target_rgb[c] - source_rgb[c]]

\* lines 634-635: np.clip(target_rgb - source_rgb, -0.3, 0.3)
ColorShift(target_rgb, source_rgb) ==
    [c \in Chan |-> clip(target_rgb[c] - source_rgb[c], -Centi(30), Centi(30))]

\* Ok(color), or Raise("KeyError") when an analysis record lacks a key read here
apply_professional_color_grading(input_color, source_analysis, reference_analysis) ==
    LET lum == luminance(input_color)
        band == GradingBand(lum)
        \* 0.08, 0.06, 0.12, in hundredths
        weight == IF lum < Centi(25) THEN 8
                  ELSE IF lum > Centi(75) THEN 6 ELSE 12
        target_rgb == reference_analysis[band].rgb_avg
        source_rgb == source_analysis[band].rgb_avg
        color_shift == ColorShift(target_rgb, source_rgb)
        shifted == [c \in Chan |-> input_color[c] + MulCenti(color_shift[c], weight)]
        temp_diff == reference_analysis.overall.temperature
                     - source_analysis.overall.temperature
        tint_diff == reference_analysis.overall.tint - source_analysis.overall.tint
        \* temp_diff / 50000 and temp_diff / 80000 as fixed-point numbers
        boost == Scale + Abs(temp_diff) * (Scale \div 50000)
        reduce == Scale - Abs(temp_diff) * (Scale \div 80000)
        tempered == IF Abs(temp_diff) > 100
                    THEN IF temp_diff > 0
                         THEN Color(MulFix(shifted[1], boost), shifted[2],
                                    MulFix(shifted[3], reduce))
                         ELSE Color(MulFix(shifted[1], reduce), shifted[2],
                                    MulFix(shifted[3], boost))
                    ELSE shifted
        \* abs(tint_diff) > 0.05; tint_diff / 3000 as a fixed-point number is
        \* the held integer * (Scale / TintUnit) / 3000, that is, / 30
        tinted == IF Abs(tint_diff) > (5 * TintUnit) \div 100
                  THEN Color(tempered[1],
                             tempered[2] + tint_diff \div 30,
                             tempered[3])
                  ELSE tempered
        adjusted_color == [c \in Chan |-> clip01(tinted[c])]
        \* 0.85, in hundredths
        blend_ratio == 85
        final_color == [c \in Chan |->
                           MulCenti(input_color[c], blend_ratio)
                           + MulCenti(adjusted_color[c], 100 - blend_ratio)]
    IN  IF ~ HasKey(reference_analysis, band) \/ ~ HasKey(source_analysis, band)
           \/ ~ HasKey(reference_analysis, "overall")
           \/ ~ HasKey(source_analysis, "overall")
        THEN Raise("KeyError")
        ELSE Ok([c \in Chan |-> clip01(final_color[c])])

\* The try block of generate_lut_from_color_transfer.  transfer_outcome is what
\* ColorMatcher.transfer did with the normalized images: "ok" or "raised".
TransferAttempt(src_img, ref_image, meth, transfer_outcome) ==
    IF transfer_outcome # "ok" THEN Raise("TransferError")
    ELSE LET source_analysis == analyze_image_characteristics(src_img)
             reference_analysis == analyze_reference_colors(ref_image)
             graded(r, g, b) ==
                 apply_professional_color_grading(InputColor(r, g, b),
                                                  source_analysis, reference_analysis)
         IN  IF \E r \in Axis, g \in Axis, b \in Axis : ~ graded(r, g, b).ok
             THEN Raise("KeyError")
             ELSE Ok([r \in Axis |-> [g \in Axis |-> [b \in Axis |->
                          graded(r, g, b).value]]])

\* an except clause that hands the failure on to the caller
TransferFallbackReraises(ref_image) == Raise("TransferError")

\* The except clause: the adaptive grid of the reference's statistics.
TransferFallback(ref_image) ==
    Ok(create_adaptive_lut(analyze_reference_colors(ref_image)))

generate_lut_from_color_transfer(src_img, ref_image, meth, transfer_outcome) ==
    LET attempt == TransferAttempt(src_img, ref_image, meth, transfer_outcome)
    IN  IF attempt.ok THEN attempt ELSE TransferFallback(ref_image)

\* which of the two paths produced the grid
TransferPath(src_img, ref_image, meth, transfer_outcome) ==
    IF TransferAttempt(src_img, ref_image, meth, transfer_outcome).ok
    THEN "transfer" ELSE "fallback"

\* apply_cinematic_adjustments returns the grid unchanged
apply_cinematic_adjustments(lut, look_entry) == lut

---------------------------------------------------------------------------
(* The LUT codec.  A text is the sequence of its lines, each ended by a    *)
(* line break.  A data line holds its three numbers as printed: the        *)
(* integers value * 10^6 of the six-decimal numerals.                      *)

\* f"{x:.6f}": x rounded to six decimals
Format6(x) == (x + 50) \div 100

\* float(s) of a six-decimal numeral
ParseFloat(m) == m * 100

CommentLine(t) == [kind |-> "comment", text |-> t]
SizeLine(n) == [kind |-> "size", size |-> n]
BlankLine == [kind |-> "blank"]
DataLine(rgb) ==
    [kind |-> "data", values |-> <<Format6(rgb[1]), Format6(rgb[2]), Format6(rgb[3])>>]

\* lut.shape[0]
GridSize(lut) == Cardinality(DOMAIN lut)

\* the inner loop with the axes transposed: it reads lut[b, g, r]
BlueLoopTransposed(lut, size, r, g) == [k \in 1..size |-> DataLine(lut[k - 1][g][r])]

\* for b in range(size): one line per blue index, at fixed r and g
BlueLoop(lut, size, r, g) == [k \in 1..size |-> DataLine(lut[r][g][k - 1])]

\* for g in range(size)
RECURSIVE GreenLoop(_, _, _, _)
GreenLoop(lut, size, r, g) ==
    IF g >= size THEN <<>>
    ELSE BlueLoop(lut, size, r, g) \o GreenLoop(lut, size, r, g + 1)

\* for r in range(size)
RECURSIVE RedLoop(_, _, _)
RedLoop(lut, size, r) ==
    IF r >= size THEN <<>>
    ELSE GreenLoop(lut, size, r, 0) \o RedLoop(lut, size, r + 1)

\* the encoder without the blank line after the size line
lut_to_cube_no_blank(lut) ==
    LET size == GridSize(lut)
    IN  <<CommentLine("LUTForge AI Generated LUT v2.0"),
          CommentLine("Created using professional color-matcher algorithms"),
          SizeLine(size)>>
        \o RedLoop(lut, size, 0)

lut_to_cube(lut) ==
    LET size == GridSize(lut)
    IN  <<CommentLine("LUTForge AI Generated LUT v2.0"),
          CommentLine("Created using professional color-matcher algorithms"),
          SizeLine(size),
          BlankLine>>
        \o RedLoop(lut, size, 0)

\* lut_content.split('\n'): the lines, and the empty piece after the last break
SplitLines(content) == content \o <<BlankLine>>

\* A state holds a text folded into pages, a page being a run of consecutive
\* lines and all pages but the last being of one length (about the square
\* root of the number of lines); TextOf is the text of the pages.
PageLength(text) == ISqrtIn(Len(text), 0, Len(text)) + 1

Paged(text) ==
    LET n == Len(text)
        p == PageLength(text)
    IN  [i \in 1..((n + p - 1) \div p) |->
            [j \in 1..Min(p, n - (i - 1) * p) |-> text[(i - 1) * p + j]]]

TextOf(pages) ==
    IF pages = <<>> THEN <<>>
    ELSE LET p == Len(pages[1])
             n == p * (Len(pages) - 1) + Len(pages[Len(pages)])
         IN  [k \in 1..n |-> pages[((k - 1) \div p) + 1][((k - 1) % p) + 1]]

\* int(round(n ** (1/3)))
RoundCubeRoot(n) ==
    CHOOSE s \in 0..n : (2 * s - 1) * (2 * s - 1) * (2 * s - 1) <= 8 * n
                        /\ 8 * n < (2 * s + 1) * (2 * s + 1) * (2 * s + 1)

\* the position the decoder gives data line i (0-based): <<r, g, b>>
DecodeIndex(i, size) ==
    LET b == i \div (size * size)
        g == (i % (size * size)) \div size
        r == i % size
    IN  <<r, g, b>>

\* Ok(report), or Raise("ZeroDivisionError") for a text of a single data line
analyze_lut_content(lut_content) ==
    LET lines == SplitLines(lut_content)
        IsData(line) == line.kind \notin {"blank", "comment", "size"}
        data_lines == SelectSeq(lines, IsData)
        n == Len(data_lines)
        size == RoundCubeRoot(n)
        expected(i) == LET pos == DecodeIndex(i, size)
                       IN  [c \in Chan |-> Frac(pos[c], size - 1)]
        max_diff == [k \in 1..n |->
                        LET values == [c \in Chan |-> ParseFloat(data_lines[k].values[c])]
                            e == expected(k - 1)
                        IN  Max(Abs(values[1] - e[1]),
                                Max(Abs(values[2] - e[2]), Abs(values[3] - e[3])))]
        transformations == Cardinality({k \in 1..n : max_diff[k] > Centi(1)})
        identity_count == Cardinality({k \in 1..n : max_diff[k] <= Centi(1)})
        max_change == IF n = 0 THEN 0
                      ELSE CHOOSE m \in {max_diff[k] : k \in 1..n} :
                               \A k \in 1..n : max_diff[k] <= m
    IN  IF n > 0 /\ size = 1 THEN Raise("ZeroDivisionError")
        ELSE Ok([total_entries |-> n,
                 transformations |-> transformations,
                 identity_count |-> identity_count,
                 max_change |-> max_change,
                 \* a percentage, with six decimals
                 transformation_percentage |->
                     IF n > 0 THEN Frac(transformations, n) ELSE 0])

---------------------------------------------------------------------------
(* The catalog of looks and the AI analysis *)

\* a CinematicLook (the description, a text for the AI prompt only, is left out)
Look(n, m, colors, bias, sat) ==
    [name |-> n, method |-> m, reference_colors |-> colors,
     temperature_bias |-> bias, saturation_factor |-> sat]

Rgb(r, g, b) == Color(Centi(r), Centi(g), Centi(b))

CINEMATIC_LOOKS ==
    [orange_teal |->
        Look("Orange & Teal", "mkl",
             <<Rgb(100, 60, 20), Rgb(10, 30, 50), Rgb(80, 50, 30)>>, 400, Centi(130)),
     sci_fi_green |->
        Look("Sci-Fi Green", "mkl",
             <<Rgb(20, 80, 30), Rgb(10, 40, 20), Rgb(30, 100, 40)>>, -800, Centi(120)),
     film_noir |->
        Look("Film Noir", "reinhard",
             <<Rgb(5, 5, 5), Rgb(95, 95, 95), Rgb(40, 40, 40)>>, 0, Centi(30)),
     warm_vintage |->
        Look("Warm Vintage", "mkl",
             <<Rgb(90, 70, 40), Rgb(40, 30, 20), Rgb(70, 50, 30)>>, 800, Centi(110)),
     cool_digital |->
        Look("Cool Digital", "mkl",
             <<Rgb(30, 40, 90), Rgb(10, 10, 40), Rgb(20, 30, 60)>>, -600, Centi(130)),
     bleach_bypass |->
        Look("Bleach Bypass", "reinhard",
             <<Rgb(90, 90, 80), Rgb(5, 5, 5), Rgb(50, 50, 50)>>, -100, Centi(40)),
     warm_red_film |->
        Look("Warm Red Film", "mkl",
             <<Rgb(95, 40, 30), Rgb(60, 20, 15), Rgb(80, 50, 40), Rgb(90, 70, 50)>>,
             600, Centi(140))]

\* a lookup that puts the versatile default in the place of an unknown look
LookupLookOrDefault(cat, key) ==
    IF key \in DOMAIN cat THEN Ok(cat[key]) ELSE Ok(cat["warm_vintage"])

\* CINEMATIC_LOOKS[analysis_result.cinematic_look]: the entry, or KeyError
LookupLook(cat, key) ==
    IF key \in DOMAIN cat THEN Ok(cat[key]) ELSE Raise("KeyError")

ColorMatcherResponse(a, l, m, c) ==
    [analysis |-> a, cinematic_look |-> l, method |-> m, confidence |-> c]

\* reply is what the service call came to: an exception ("raised"), an empty
\* text ("empty"), a text without braces ("no_json"), a JSON text that is no
\* ColorMatcherResponse ("bad_record"), or the record of a well-formed answer.
analyze_image_for_cinematic_look(reply) ==
    IF reply.kind = "record"
    THEN ColorMatcherResponse(reply.analysis, reply.cinematic_look,
                              reply.method, reply.confidence)
    ELSE ColorMatcherResponse("Fallback analysis - using versatile warm vintage look",
                              "warm_vintage", "mkl", Centi(70))

---------------------------------------------------------------------------
(* Inputs *)

\* the largest axis length of the grids handed to the codec
MaxGridSize == 3
\* the largest number of pixels of a reference image handed to the adapter
MaxPixels == 2

Black == Rgb(0, 0, 0)
White == Rgb(100, 100, 100)
Grey == Rgb(50, 50, 50)
Blue == Rgb(0, 0, 100)
Orange == Rgb(100, 50, 0)

\* the images of n pixels with colors of a palette
ImagesOf(palette, n) == [1..n -> palette]

SourceImages == ImagesOf({Grey, Orange}, 1)
RefPalette == <<Blue, Orange>>

\* The statistics of an image do not depend on the order of its pixels: one
\* image stands for all the images of the same pixels, the one whose colors
\* come in the palette's order.
OrderedImages(n) ==
    {[i \in 1..n |-> RefPalette[ix[i]]] :
        ix \in {f \in [1..n -> DOMAIN RefPalette] :
                   \A i \in 1..n, j \in 1..n : i < j => f[i] <= f[j]}}

ReferenceImages == UNION {OrderedImages(n) : n \in 1..MaxPixels}
Methods == {"mkl", "reinhard"}
TransferOutcomes == {"ok", "raised"}

\* statistics records handed to create_adaptive_lut directly
BandColors == {Black, White, Grey, Blue}
WarmthLevels == {-10 * Scale, Centi(10), 2 * Scale}
StatsRecords ==
    {[dominant_colors |-> [shadows |-> c, midtones |-> c, highlights |-> c],
      temperature_bias |-> t, warmth_strength |-> w] :
        c \in BandColors, t \in {"warm", "cool"}, w \in WarmthLevels}
    \cup
    {[dominant_colors |-> [shadows |-> c, midtones |-> Grey, highlights |-> White],
      temperature_bias |-> t] : c \in {Black, Blue}, t \in {"warm", "cool"}}

\* the grid of size n whose voxel (r, g, b) holds (r/(n-1), g/(n-1), b/(n-1))
IdentityGrid(n) ==
    [r \in 0..(n - 1) |-> [g \in 0..(n - 1) |-> [b \in 0..(n - 1) |->
        Color(Frac(r, n - 1), Frac(g, n - 1), Frac(b, n - 1))]]]

\* the synthetic grid of size n whose voxel (r, g, b) holds (r, g, b)
CoordinateGrid(n) ==
    [r \in 0..(n - 1) |-> [g \in 0..(n - 1) |-> [b \in 0..(n - 1) |->
        Color(r * Scale, g * Scale, b * Scale)]]]

\* grid values with more digits than a data line holds
ProbeColors == {Color(12345678, 99999949, 1), Color(Scale, 50, 33333333)}

\* the identity grid with one voxel overwritten
WithVoxel(lut, r, g, b, c) ==
    [lut EXCEPT ![r] = [@ EXCEPT ![g] = [@ EXCEPT ![b] = c]]]

CodecGrids ==
    UNION {{IdentityGrid(n), CoordinateGrid(n)}
           \cup {WithVoxel(IdentityGrid(n), r, g, b, c) :
                    r \in 0..(n - 1), g \in 0..(n - 1), b \in 0..(n - 1),
                    c \in ProbeColors} : n \in 2..MaxGridSize}

\* the uploads: a content type, and the image the bytes decode to (None: the
\* bytes are no image)
Uploads ==
    {[content_type |-> "image/jpeg", image |-> img] : img \in SourceImages}
    \cup {[content_type |-> t, image |-> None] :
             t \in {"image/png", "text/plain", "application/pdf", "video/mp4"}}

AIReplies ==
    {[kind |-> k] : k \in {"raised", "empty", "no_json", "bad_record"}}
    \cup {[kind |-> "record", analysis |-> "analysis", cinematic_look |-> l,
           method |-> CINEMATIC_LOOKS[l].method, confidence |-> Centi(90)] :
             l \in DOMAIN CINEMATIC_LOOKS}
    \cup {[kind |-> "record", analysis |-> "analysis", cinematic_look |-> l,
           method |-> "hist_match", confidence |-> Centi(50)] :
             l \in {"neon_noir", "teal_orange", "Film Noir", "WARM_VINTAGE", ""}}

\* np.random, the generator of the process: its state is told by the noise
\* its next draw yields, and after a draw it is in any state again
Noise == DOMAIN RefPalette
\* the generator where no operation draws from it
Seeded == CHOOSE n \in Noise : TRUE

\* create_reference_image perturbs the image it builds by noise drawn from
\* np.random: the image of the source's size the noise makes of it
create_reference_image(look_entry, size, noise) == [i \in 1..size |-> RefPalette[noise]]

---------------------------------------------------------------------------
(* The LUT codec at work: a grid is encoded, the text is analyzed.         *)

requestVars == <<upload, ai_reply, source_img, analysis_result, look>>
adapterVars == <<reference_img, method, transfer, path, ref_analysis>>

InitCodec ==
    /\ pc = "codec_grid"
    /\ lut_array \in CodecGrids
    /\ catalog = CINEMATIC_LOOKS
    /\ upload = None /\ ai_reply = None /\ source_img = None
    /\ analysis_result = None /\ look = None
    /\ reference_img = None /\ method = NoName /\ transfer = NoName
    /\ path = NoName /\ ref_analysis = None
    /\ cube_content = None /\ lut_report = None /\ response = None
    /\ np_random = Seeded /\ parked = None
    /\ NoGrading

LutToCube ==
    /\ pc = "codec_grid"
    /\ cube_content' = Paged(lut_to_cube(lut_array))
    /\ pc' = "codec_encoded"
    /\ UNCHANGED <<requestVars, adapterVars, lut_array, lut_report, response, catalog,
                   np_random, parked, gradingVars>>

AnalyzeLutContent ==
    /\ pc = "codec_encoded"
    /\ lut_report' = analyze_lut_content(TextOf(cube_content))
    /\ pc' = "codec_analyzed"
    /\ UNCHANGED <<requestVars, adapterVars, lut_array, cube_content, response, catalog,
                   np_random, parked, gradingVars>>

NextCodec == LutToCube \/ AnalyzeLutContent

SpecCodec == InitCodec /\ [][NextCodec]_vars


\* the text has been produced from lut_array
Encoded == pc \in {"codec_encoded", "codec_analyzed"}

\* the 0-based data line i of a text: four lines come before the first one
DataLineAt(content, i) == content[i + 5]

\* the three numerals a data line holds for a color
Printed(rgb) == <<Format6(rgb[1]), Format6(rgb[2]), Format6(rgb[3])>>

\* data line r*N*N + g*N + b of text holds voxel (r, g, b) of lut, for all r, g, b
HoldsVoxelsRedOuter(text, lut, N) ==
    \A r \in 0..(N - 1), g \in 0..(N - 1), b \in 0..(N - 1) :
        /\ DataLineAt(text, r * N * N + g * N + b).kind = "data"
        /\ DataLineAt(text, r * N * N + g * N + b).values = Printed(lut[r][g][b])

\* C1: for every cubic grid of size N, the text lut_to_cube produced has red as
\* the outer, green as the middle and blue as the inner axis: for every voxel
\* (r, g, b), the 0-based data line r*N*N + g*N + b is a data line and holds
\* the stored value of that voxel (as its six-decimal numerals), so that
\* consecutive lines differ in blue first.
RedOuterBlueInner ==
    Encoded => HoldsVoxelsRedOuter(TextOf(cube_content), lut_array, GridSize(lut_array))

\* C1 at work: a grid of size 3 whose voxels (1, 0, 2) and (2, 0, 1) differ
\* has been encoded, and line 1*9 + 0*3 + 2 holds voxel (1, 0, 2)
RedOuterBlueInnerSeen ==
    /\ pc = "codec_encoded"
    /\ GridSize(lut_array) = 3
    /\ Printed(lut_array[1][0][2]) # Printed(lut_array[2][0][1])
    /\ DataLineAt(TextOf(cube_content), 11).values = Printed(lut_array[1][0][2])
    /\ DataLineAt(TextOf(cube_content), 10).values = Printed(lut_array[1][0][1])

\* the position a data line of the coordinate grid's text names: the voxel
\* whose value it holds
WrittenVoxel(line) ==
    <<ParseFloat(line.values[1]) \div Scale,
      ParseFloat(line.values[2]) \div Scale,
      ParseFloat(line.values[3]) \div Scale>>

\* C2: for the grid with value(r, g, b) = (r, g, b), once encoded, the position
\* the decoder's index arithmetic gives every data line index i is the (r, g, b)
\* of the voxel the encoder wrote on line i.
DecoderRecoversPosition ==
    (Encoded /\ lut_array = CoordinateGrid(GridSize(lut_array))) =>
        \A i \in 0..(GridSize(lut_array) * GridSize(lut_array) * GridSize(lut_array) - 1) :
            DecodeIndex(i, GridSize(lut_array))
                = WrittenVoxel(DataLineAt(TextOf(cube_content), i))

\* C3: when the identity grid of size N is encoded and the text analyzed, the
\* report has transformations = 0, identity_count = N^3 and a max_change within
\* the tolerance of 0.01.
IdentityReportsNoChange ==
    (pc = "codec_analyzed" /\ lut_array = IdentityGrid(GridSize(lut_array))) =>
        LET N == GridSize(lut_array)
        IN  /\ lut_report.ok
            /\ lut_report.value.transformations = 0
            /\ lut_report.value.identity_count = N * N * N
            /\ lut_report.value.max_change <= Centi(1)

\* text is comment lines, one size line of N, one blank line and N^3 data
\* lines of three values, in this order and nothing else
IsCubeLayout(text, N) ==
    LET sizeAt == CHOOSE k \in 1..Len(text) : text[k].kind = "size"
    IN  /\ Cardinality({k \in 1..Len(text) : text[k].kind = "size"}) = 1
        /\ sizeAt > 1
        /\ \A k \in 1..(sizeAt - 1) : text[k].kind = "comment"
        /\ text[sizeAt].size = N
        /\ text[sizeAt + 1].kind = "blank"
        /\ Len(text) = sizeAt + 1 + N * N * N
        /\ \A k \in (sizeAt + 2)..Len(text) :
               /\ text[k].kind = "data"
               /\ Len(text[k].values) = 3

\* C8: for every grid of N x N x N x 3, the text lut_to_cube produced is, in
\* this order: comment lines, one size line whose N is the grid's axis length,
\* one blank line, and exactly N^3 data lines of three values each; no data
\* line comes before the size line and nothing follows the last data line.
CubeTextLayout ==
    Encoded => IsCubeLayout(TextOf(cube_content), GridSize(lut_array))

\* the text is 2 comment lines, the size line of 3, a blank line and 27 data lines
IsLayoutOfSize3(text) ==
    /\ Len(text) = 31
    /\ text[1].kind = "comment" /\ text[2].kind = "comment"
    /\ text[3] = SizeLine(3)
    /\ text[4] = BlankLine
    /\ text[5].kind = "data" /\ text[31].kind = "data"

\* C8 at work: a grid of size 3 has been encoded into 2 comment lines, the
\* size line of 3, a blank line and 27 data lines
CubeTextLayoutSeen ==
    /\ pc = "codec_encoded"
    /\ GridSize(lut_array) = 3
    /\ IsLayoutOfSize3(TextOf(cube_content))

\* every channel of every voxel of a grid of any shape lies in [0, 1]
ValuesInUnitRange(lut) ==
    \A r \in DOMAIN lut : \A g \in DOMAIN lut[r] : \A b \in DOMAIN lut[r][g] :
        \A c \in Chan : 0 <= lut[r][g][b][c] /\ lut[r][g][b][c] <= Scale

\* C11: when the grid handed to lut_to_cube has a value outside [0, 1] (the
\* codec's precondition on values is violated), the encoder ends in a failure
\* and there is no LUT text, neither a partial one nor one with values out of
\* range.
InvalidGridYieldsNoText ==
    (Encoded /\ ~ ValuesInUnitRange(lut_array)) => cube_content = None

---------------------------------------------------------------------------
(* The adapter at work: generate_lut_from_color_transfer on an image pair, *)
(* and create_adaptive_lut on a statistics record.                         *)

InitTransfer ==
    /\ catalog = CINEMATIC_LOOKS
    /\ upload = None /\ ai_reply = None
    /\ analysis_result = None /\ look = None
    /\ transfer = NoName /\ path = NoName /\ lut_array = None
    /\ cube_content = None /\ lut_report = None /\ response = None
    /\ np_random = Seeded /\ parked = None
    /\ NoGrading
    /\ \/ /\ pc = "transfer_call"
          /\ source_img \in SourceImages
          /\ reference_img \in ReferenceImages
          /\ method \in Methods
          /\ ref_analysis = None
       \/ /\ pc = "adaptive_call"
          /\ ref_analysis \in StatsRecords
          /\ source_img = None /\ reference_img = None /\ method = NoName

\* the call has come to result by path p, the library call having ended in outcome
AdapterReturns(result, p, outcome) ==
    /\ transfer' = outcome
    /\ path' = p
    /\ response' = IF result.ok THEN [outcome |-> "returned"]
                   ELSE [outcome |-> "raised", exc |-> result.exc]
    /\ lut_array' = IF result.ok THEN result.value ELSE None

GenerateLutFromColorTransfer ==
    /\ pc = "transfer_call"
    /\ \E outcome \in TransferOutcomes :
         AdapterReturns(
             generate_lut_from_color_transfer(source_img, reference_img, method, outcome),
             TransferPath(source_img, reference_img, method, outcome),
             outcome)
    /\ pc' = "transfer_done"
    /\ UNCHANGED <<upload, ai_reply, source_img, analysis_result, look,
                   reference_img, method, ref_analysis, cube_content, lut_report, catalog,
                   np_random, parked, gradingVars>>

CreateAdaptiveLut ==
    /\ pc = "adaptive_call"
    /\ lut_array' = create_adaptive_lut(ref_analysis)
    /\ pc' = "adaptive_done"
    /\ UNCHANGED <<requestVars, adapterVars, cube_content, lut_report, response, catalog,
                   np_random, parked, gradingVars>>

NextTransfer == GenerateLutFromColorTransfer \/ CreateAdaptiveLut

SpecTransfer == InitTransfer /\ [][NextTransfer]_vars


\* generate_lut_from_color_transfer has returned or raised
TransferDone == pc = "transfer_done"

\* the try block of the call under way failed, in the library call or after it
TransferStepFailed ==
    ~ TransferAttempt(source_img, reference_img, method, transfer).ok

\* C4: when the library's transfer call succeeds for the image pair, every
\* voxel of the grid generate_lut_from_color_transfer returns is what
\* apply_professional_color_grading gives the voxel's input color from the
\* tonal statistics of source and reference (the band-weighted shift, blended
\* 85/15), and the grid is not the adaptive-blend fallback: the fallback grid
\* is returned only when the transfer call itself fails.
TransferSucceededGridIsGraded ==
    (TransferDone /\ transfer = "ok") =>
        /\ path = "transfer"
        /\ \A r \in Axis, g \in Axis, b \in Axis :
               LET graded == apply_professional_color_grading(
                                 InputColor(r, g, b),
                                 analyze_image_characteristics(source_img),
                                 analyze_reference_colors(reference_img))
               IN  graded.ok /\ lut_array[r][g][b] = graded.value

\* C5: if the transfer step of generate_lut_from_color_transfer fails, for
\* whatever reason, the call does not raise: it returns the grid that
\* create_adaptive_lut makes of analyze_reference_colors(reference_img), in
\* which the source image has no part.
FailedTransferFallsBack ==
    (TransferDone /\ TransferStepFailed) =>
        /\ response.outcome = "returned"
        /\ path = "fallback"
        /\ lut_array = create_adaptive_lut(analyze_reference_colors(reference_img))

\* C5 at work: the library call raised for a source of one kind and a
\* reference of two colors, and the call returned a grid
FailedTransferFallsBackSeen ==
    /\ TransferDone
    /\ transfer = "raised"
    /\ source_img = <<Orange>>
    /\ reference_img = <<Blue, Orange>>
    /\ response.outcome = "returned"
    /\ path = "fallback"
    /\ lut_array # None

\* every channel of every voxel of a grid lies in [0, 1]
InUnitRange(lut) ==
    \A r \in Axis, g \in Axis, b \in Axis, c \in Chan :
        0 <= lut[r][g][b][c] /\ lut[r][g][b][c] <= Scale

\* C6: for every statistics record (band colors in [0, 1], warm or cool, any
\* warmth strength) every channel of every voxel of the grid of
\* create_adaptive_lut lies in [0, 1], and so does every channel of every voxel
\* of a grid generate_lut_from_color_transfer returns, by whichever path.
GridsStayInUnitRange ==
    /\ pc = "adaptive_done" => InUnitRange(lut_array)
    /\ (TransferDone /\ response.outcome = "returned") => InUnitRange(lut_array)

\* C6 at work: create_adaptive_lut was given all-black bands and a warm bias of
\* negative strength; the blend left [0, 1] on both sides (red below 0 at voxel
\* (0, 32, 0), blue above 1 at voxel (32, 32, 32)) and the grid holds 0 and 1
GridsStayInUnitRangeSeen ==
    /\ pc = "adaptive_done"
    /\ ref_analysis.temperature_bias = "warm"
    /\ AdaptiveBlend(ref_analysis, InputColor(0, 32, 0), luminance(InputColor(0, 32, 0)),
                     TRUE, TemperatureGain(ref_analysis),
                     TemperatureCut(ref_analysis))[1] < 0
    /\ lut_array[0][32][0][1] = 0
    /\ AdaptiveBlend(ref_analysis, InputColor(32, 32, 32), luminance(InputColor(32, 32, 32)),
                     TRUE, TemperatureGain(ref_analysis),
                     TemperatureCut(ref_analysis))[3] > Scale
    /\ lut_array[32][32][32][3] = Scale

\* the distance of a grid's voxel from its identity value, in channel c
Deviation(lut, r, g, b, c) == Abs(lut[r][g][b][c] - InputColor(r, g, b)[c])

\* every voxel of the grid is within bound of its identity value in red and
\* blue, and within green_bound in green
DeviationWithin(lut, bound, green_bound) ==
    \A r \in Axis, g \in Axis, b \in Axis :
        /\ Deviation(lut, r, g, b, 1) <= bound
        /\ Deviation(lut, r, g, b, 2) <= green_bound
        /\ Deviation(lut, r, g, b, 3) <= bound

\* the grid at hand came from the adaptive-blend path, from statistics whose
\* warmth strength is not negative (as analyze_reference_colors computes it)
AdaptiveGridReturned ==
    \/ TransferDone /\ path = "fallback" /\ response.outcome = "returned"
    \/ /\ pc = "adaptive_done"
       /\ HasKey(ref_analysis, "warmth_strength") => ref_analysis.warmth_strength >= 0

\* C7, as the program has it: when the transfer step fails, for every
\* statistics record with band colors in [0, 1] and a warmth strength that is
\* not negative, every voxel of the adaptive-blend grid is within 0.152 of its
\* identity value in red and blue and within 0.15 in green (the band shift of
\* at most 0.15 is multiplied by a temperature factor of up to 1.015).
AdaptiveDeviationBound ==
    AdaptiveGridReturned => DeviationWithin(lut_array, Milli(152), Centi(15))

\* C7, as claimed: when the transfer step is forced to fail, every voxel of
\* the adaptive-blend grid is within 0.15 of its identity value in each channel.
AdaptiveDeviationWithin15 ==
    (TransferDone /\ transfer = "raised") =>
        DeviationWithin(lut_array, Centi(15), Centi(15))

\* C7 at work: the transfer was forced to fail for a reference of blue pixels,
\* and the blue of voxel (0, 0, 6) is more than 0.15 and no more than 0.152
\* from its identity value
AdaptiveDeviationBoundSeen ==
    /\ TransferDone
    /\ transfer = "raised"
    /\ path = "fallback"
    /\ reference_img = <<Blue>>
    /\ Deviation(lut_array, 0, 0, 6, 3) > Centi(15)
    /\ Deviation(lut_array, 0, 0, 6, 3) <= Milli(152)

\* create_adaptive_lut has returned the grid at hand, called by the adapter's
\* fallback or directly
AdaptiveGridBuilt ==
    \/ TransferDone /\ path = "fallback" /\ response.outcome = "returned"
    \/ pc = "adaptive_done"

\* the input luminance 0.299 r/32 + 0.587 g/32 + 0.114 b/32 of voxel (r, g, b)
\* is 0.02 or less, in whole numbers: both sides times 1000 (N - 1)
InputIsDark(r, g, b) == 299 * r + 587 * g + 114 * b <= 20 * (LUT_SIZE - 1)

\* C18: in the grid create_adaptive_lut returns, every voxel whose input
\* luminance is 0.02 or less keeps exactly its identity value (r/32, g/32, b/32).
DarkVoxelsKeepIdentity ==
    AdaptiveGridBuilt =>
        \A r \in Axis, g \in Axis, b \in Axis :
            InputIsDark(r, g, b) =>
                lut_array[r][g][b] = InputColor(r, g, b)

\* C18 at work: for a reference of blue pixels voxel (0, 0, 5), of luminance
\* 0.0178, holds its identity value, and voxel (0, 0, 6), of luminance 0.0214,
\* does not
DarkVoxelsKeepIdentitySeen ==
    /\ AdaptiveGridBuilt
    /\ TransferDone
    /\ reference_img = <<Blue>>
    /\ InputIsDark(0, 0, 5)
    /\ ~ InputIsDark(0, 0, 6)
    /\ lut_array[0][0][5] = InputColor(0, 0, 5)
    /\ lut_array[0][0][5] # Black
    /\ lut_array[0][0][6] # InputColor(0, 0, 6)

---------------------------------------------------------------------------
(* The request handler generate_lut, a coroutine: a request is a step up   *)
(* to each of its awaits (the upload's bytes, line 794; the AI analysis,   *)
(* line 807) and a last step from there to the response.                   *)

HttpError(code) == [status |-> code]
\* the handler returns cube_content itself
HttpOk == [status |-> 200]

\* the locals of a handler that has not started
Started ==
    /\ pc = "idle"
    /\ upload = None /\ ai_reply = None /\ source_img = None
    /\ analysis_result = None /\ look = None
    /\ reference_img = None /\ method = NoName /\ transfer = NoName
    /\ path = NoName /\ lut_array = None /\ cube_content = None
    /\ response = None

Init ==
    /\ Started
    /\ catalog = CINEMATIC_LOOKS
    /\ np_random \in Noise
    /\ parked = None
    /\ NoGrading
    /\ ref_analysis = None /\ lut_report = None

locals == <<ai_reply, source_img, analysis_result, look, reference_img, method,
            transfer, path, lut_array, cube_content>>

\* lines 788-794 for an upload of uploads: the content type is checked and
\* the bytes are awaited
ReceiveUploadOf(uploads) ==
    /\ pc = "idle"
    /\ \E u \in uploads :
         /\ upload' = u
         /\ IF u.content_type \in {"image/jpeg", "image/png"}
            THEN pc' = "reading" /\ response' = None
            ELSE pc' = "done" /\ response' = HttpError(400)
    /\ UNCHANGED <<locals, ref_analysis, lut_report, catalog, np_random, parked, gradingVars>>

ReceiveUpload == ReceiveUploadOf(Uploads)

\* lines 797-804 raise: the bytes are no image
DecodeFails ==
    /\ pc = "reading"
    /\ upload.image = None
    /\ response' = HttpError(500)
    /\ pc' = "done"
    /\ UNCHANGED <<locals, upload, ref_analysis, lut_report, catalog, np_random, parked, gradingVars>>

\* lines 797-807 for a reply of replies: the bytes are decoded and the AI
\* analysis is awaited
AnalyzeImageOf(replies) ==
    /\ pc = "reading"
    /\ upload.image # None
    /\ \E reply \in replies :
         /\ ai_reply' = reply
         /\ analysis_result' = analyze_image_for_cinematic_look(reply)
    /\ source_img' = upload.image
    /\ pc' = "analyzed"
    /\ UNCHANGED <<look, reference_img, method, transfer, path, lut_array, cube_content,
                   upload, response, ref_analysis, lut_report, catalog, np_random, parked, gradingVars>>

AnalyzeImage == AnalyzeImageOf(AIReplies)

\* line 810 raises: the look the analysis names is no key of the catalog
LookupFails ==
    /\ pc = "analyzed"
    /\ ~ LookupLook(catalog, analysis_result.cinematic_look).ok
    /\ response' = HttpError(500)
    /\ pc' = "done"
    /\ UNCHANGED <<locals, upload, ref_analysis, lut_report, catalog, np_random, parked, gradingVars>>

\* a callee that rewrites the saturation factor of the look it is handed
LookRescaled(entry) == [entry EXCEPT !.saturation_factor = Scale]

\* The local look is the catalog's own object (line 810), handed to
\* create_reference_image, enhance_reference_colors and
\* apply_cinematic_adjustments: the entry as these calls leave it. They read
\* look.name and look.saturation_factor (lines 161-228, 281) and write nothing.
LookAfterCalls(entry) == entry

\* lines 810-828 once the collaborators have answered: the catalog with entry,
\* the noise of the reference image with ref, the adapter with grid by path p
\* after the library call ended in outcome
HandlerReturns(entry, ref, outcome, p, grid) ==
    /\ look' = LookAfterCalls(entry)
    /\ catalog' = [catalog EXCEPT ![analysis_result.cinematic_look] = LookAfterCalls(entry)]
    /\ reference_img' = ref
    /\ method' = analysis_result.method
    /\ transfer' = outcome
    /\ path' = p
    /\ lut_array' = apply_cinematic_adjustments(grid, entry)
    /\ cube_content' = Paged(lut_to_cube(apply_cinematic_adjustments(grid, entry)))
    /\ response' = HttpOk

\* lines 810-828 for the entry the lookup found and the reference image ref
GenerateLutFrom(found, ref, outcome) ==
    /\ found.ok
    /\ HandlerReturns(found.value, ref, outcome,
           TransferPath(source_img, ref, analysis_result.method, outcome),
           generate_lut_from_color_transfer(source_img, ref, analysis_result.method,
                                            outcome).value)

\* lines 810-828 for the entry the lookup found: the reference image takes
\* the generator's draw
GenerateLutWith(found, outcome) ==
    GenerateLutFrom(found,
        create_reference_image(found.value, Len(source_img), np_random), outcome)

\* lines 810-828: from the lookup to the LUT text; the draws of lines 260 and
\* 264 leave the generator in another state
GenerateLut ==
    /\ pc = "analyzed"
    /\ \E outcome \in TransferOutcomes :
         GenerateLutWith(LookupLook(catalog, analysis_result.cinematic_look), outcome)
    /\ pc' = "done"
    /\ np_random' \in Noise
    /\ UNCHANGED <<upload, ai_reply, source_img, analysis_result,
                   ref_analysis, lut_report, parked, gradingVars>>

\* lines 759-762: GET /health answers with a constant
HealthCheck ==
    /\ pc = "idle"
    /\ response' = [status |-> "healthy"]
    /\ pc' = "health_done"
    /\ UNCHANGED <<locals, upload, ref_analysis, lut_report, catalog, np_random, parked, gradingVars>>

\* lines 764-783: GET /test-color-matcher draws two images from np.random and
\* hands them to ColorMatcher.transfer; an exception is answered as an error
TestColorMatcher ==
    /\ pc = "idle"
    /\ \E outcome \in TransferOutcomes :
         response' = IF outcome = "ok" THEN [status |-> "success"]
                     ELSE [status |-> "error"]
    /\ np_random' \in Noise
    /\ pc' = "test_done"
    /\ UNCHANGED <<locals, upload, ref_analysis, lut_report, catalog, parked, gradingVars>>

\* the response is sent; the handler's locals are gone
NextRequest ==
    /\ pc \in {"done", "health_done", "test_done"}
    /\ pc' = "idle"
    /\ upload' = None /\ ai_reply' = None /\ source_img' = None
    /\ analysis_result' = None /\ look' = None
    /\ reference_img' = None /\ method' = NoName /\ transfer' = NoName
    /\ path' = NoName /\ lut_array' = None /\ cube_content' = None
    /\ response' = None
    /\ UNCHANGED <<ref_analysis, lut_report, catalog, np_random, parked, gradingVars>>

Next ==
    \/ ReceiveUpload \/ DecodeFails \/ AnalyzeImage
    \/ LookupFails \/ GenerateLut \/ NextRequest
    \/ HealthCheck \/ TestColorMatcher

Spec == Init /\ [][Next]_vars

\* a request has come to its response
RequestDone == pc = "done"

\* the look the analysis of the request selected
SelectedLook == analysis_result.cinematic_look

\* the upload was a valid image and its analysis selected a look
LookSelected == RequestDone /\ upload.image # None /\ analysis_result # None

\* the data lines of a text
DataLines(content) == {k \in 1..Len(content) : content[k].kind = "data"}

\* the text declares size 33 and has 35,937 data lines after its four header lines
IsFullLutText(text) ==
    /\ text[3] = SizeLine(33)
    /\ Cardinality(DataLines(text)) = 35937
    /\ Len(text) = 35937 + 4

\* C9: for every valid source image and every look that is a key of the
\* catalog, generate_lut returns a LUT text that is neither empty nor cut
\* short: its size line is LUT_3D_SIZE 33 and it has exactly 35,937 data lines,
\* by whichever path of the adapter the grid came.
ValidRequestYieldsFullLut ==
    (LookSelected /\ SelectedLook \in DOMAIN catalog) =>
        /\ response = HttpOk
        /\ path \in {"transfer", "fallback"}
        /\ cube_content # None
        /\ IsFullLutText(TextOf(cube_content))

\* C9 at work: a request whose analysis selected film_noir was answered with a
\* text of size 33 and 35,937 data lines
ValidRequestYieldsFullLutSeen ==
    /\ LookSelected
    /\ SelectedLook = "film_noir"
    /\ look = catalog["film_noir"]
    /\ response = HttpOk
    /\ IsFullLutText(TextOf(cube_content))

\* C10: if the look selected for a request is no key of CINEMATIC_LOOKS,
\* generate_lut ends in an error and returns no LUT text; no look stands in
\* for the unknown one, no reference image is made, no transfer is run and
\* nothing is encoded for that request.
UnknownLookIsAnError ==
    (LookSelected /\ SelectedLook \notin DOMAIN catalog) =>
        /\ response = HttpError(500)
        /\ look = None
        /\ reference_img = None
        /\ transfer = NoName
        /\ path = NoName
        /\ lut_array = None
        /\ cube_content = None

\* C10 at work: the analysis of a valid image selected neon_noir, which the
\* catalog does not hold, and the request ended in an error
UnknownLookIsAnErrorSeen ==
    /\ LookSelected
    /\ ai_reply.kind = "record"
    /\ SelectedLook = "neon_noir"
    /\ SelectedLook \notin DOMAIN catalog
    /\ response = HttpError(500)
    /\ cube_content = None

\* the AI analysis of the request failed: the call raised, or its answer was
\* empty, held no JSON, or held a record that does not parse
AnalysisFailed ==
    /\ RequestDone
    /\ upload.image # None
    /\ ai_reply.kind \in {"raised", "empty", "no_json", "bad_record"}

\* C17: a failure of the AI analysis is reported upward to the caller of the
\* request: the request ends in an error and no look is put in the place of
\* the one the analysis did not give.
AnalysisFailureReportedUpward ==
    AnalysisFailed => (response # HttpOk /\ look = None)

\* the seven keys of the catalog
SevenLooks ==
    {"orange_teal", "sci_fi_green", "film_noir", "warm_vintage", "cool_digital",
     "bleach_bypass", "warm_red_film"}

\* C13: after any sequence of requests (health check, color-matcher test,
\* LUT generation, successful or failed) the catalog is what it was at start:
\* the same seven keys, each with its method, its three or four reference
\* points, its temperature bias and its saturation factor.
CatalogNeverMutated ==
    /\ DOMAIN catalog = SevenLooks
    /\ catalog = CINEMATIC_LOOKS
    /\ \A key \in SevenLooks :
          Len(catalog[key].reference_colors) = IF key = "warm_red_film" THEN 4 ELSE 3

\* C13 at work: a generation has returned the LUT of the look of four
\* reference colors, and the catalog holds the look as it was
CatalogNeverMutatedSeen ==
    /\ RequestDone
    /\ response = HttpOk
    /\ SelectedLook = "warm_red_film"
    /\ look = catalog["warm_red_film"]
    /\ Len(look.reference_colors) = 4
    /\ look.saturation_factor = Centi(140)

---------------------------------------------------------------------------
(* Two requests in flight. uvicorn runs the handlers as coroutines of one  *)
(* event loop: a handler runs until it awaits, and the loop then resumes   *)
(* any other one. The variables of the handler hold the locals of the      *)
(* request that runs, parked those of the request that waits; CINEMATIC_LOOKS *)
(* and np.random belong to the process and are the same for both.          *)

\* the locals of the running handler, as its suspended coroutine keeps them
Frame ==
    [pc |-> pc, upload |-> upload, ai_reply |-> ai_reply, source_img |-> source_img,
     analysis_result |-> analysis_result, look |-> look,
     reference_img |-> reference_img, method |-> method, transfer |-> transfer,
     path |-> path, lut_array |-> lut_array, cube_content |-> cube_content,
     response |-> response]

\* the locals of a handler that has not started
IdleFrame ==
    [pc |-> "idle", upload |-> None, ai_reply |-> None, source_img |-> None,
     analysis_result |-> None, look |-> None,
     reference_img |-> None, method |-> NoName, transfer |-> NoName,
     path |-> NoName, lut_array |-> None, cube_content |-> None,
     response |-> None]

\* what the two requests may upload, and what the AI service may answer them
ConcurrentUploads == {[content_type |-> "image/jpeg", image |-> <<Grey>>]}
ConcurrentReplies ==
    {reply \in AIReplies :
        \/ reply.kind = "raised"
        \/ reply.kind = "record" /\ reply.cinematic_look \in {"neon_noir", "teal_orange"}}

InitConcurrent ==
    /\ Started
    /\ parked = IdleFrame
    /\ NoGrading
    /\ catalog = CINEMATIC_LOOKS
    /\ np_random \in Noise
    /\ ref_analysis = None /\ lut_report = None

\* The running request waits for its upload's bytes (line 794), or has not
\* started, or has returned, and the loop resumes the other. The coroutine
\* awaited at line 807 has no await of its own: no request is resumed between
\* the AI analysis and the response.
Switch ==
    /\ pc \in {"idle", "reading", "done"}
    /\ parked' = Frame
    /\ pc' = parked.pc
    /\ upload' = parked.upload
    /\ ai_reply' = parked.ai_reply
    /\ source_img' = parked.source_img
    /\ analysis_result' = parked.analysis_result
    /\ look' = parked.look
    /\ reference_img' = parked.reference_img
    /\ method' = parked.method
    /\ transfer' = parked.transfer
    /\ path' = parked.path
    /\ lut_array' = parked.lut_array
    /\ cube_content' = parked.cube_content
    /\ response' = parked.response
    /\ UNCHANGED <<ref_analysis, lut_report, catalog, np_random, gradingVars>>

ReceiveConcurrent == ReceiveUploadOf(ConcurrentUploads)
AnalyzeConcurrent == AnalyzeImageOf(ConcurrentReplies)

NextConcurrent ==
    \/ ReceiveConcurrent \/ AnalyzeConcurrent
    \/ LookupFails \/ GenerateLut \/ Switch

SpecConcurrent == InitConcurrent /\ [][NextConcurrent]_vars

\* both requests have returned a LUT
BothReturnedLut ==
    /\ pc = "done" /\ response = HttpOk
    /\ parked.pc = "done" /\ parked.response = HttpOk

\* the two requests had the same inputs: the same upload, the same answer of
\* the AI service, the same outcome of the library call
SameInputs ==
    /\ upload = parked.upload
    /\ ai_reply = parked.ai_reply
    /\ transfer = parked.transfer

\* C12: whatever the interleaving of two requests, the LUT a request returns
\* is determined by its own inputs: two requests of the same inputs return
\* the same LUT text.
LutDeterminedByOwnInputs ==
    (BothReturnedLut /\ SameInputs) => cube_content = parked.cube_content

---------------------------------------------------------------------------
(* The tonal statistics and the grading of one color, each called on its   *)
(* own: analyze_image_characteristics and estimate_color_temperature on an *)
(* image, analyze_reference_colors on a reference image, and               *)
(* apply_professional_color_grading on a color and two records of          *)
(* analyze_image_characteristics.                                          *)

\* colors below, on and above the band thresholds of the two extractors
\* (0.25, 0.3, 0.7, 0.75), and below, on and above the ratios 0.9 and 1.1 of
\* red to blue
StatsPalette ==
    <<Black, Blue, Rgb(25, 25, 25), Rgb(30, 30, 30), Rgb(45, 20, 50), Grey,
      Rgb(55, 20, 50), Orange, Rgb(70, 70, 70), Rgb(75, 75, 75), White>>

\* the images of up to MaxPixels pixels of the palette, one for all the images
\* of the same pixels
StatsImages ==
    UNION {{[i \in 1..n |-> StatsPalette[ix[i]]] :
               ix \in {f \in [1..n -> DOMAIN StatsPalette] :
                          \A i \in 1..n, j \in 1..n : i < j => f[i] <= f[j]}} :
           n \in 1..MaxPixels}

\* the colors graded: the corners, the edge and face centers and the center
\* of the color cube
GradeColors == {Color(r, g, b) : r \in {0, Centi(50), Scale},
                                 g \in {0, Centi(50), Scale},
                                 b \in {0, Centi(50), Scale}}

\* the records of the references a color is graded toward
GradeReferenceStats ==
    {analyze_image_characteristics(<<c>>) : c \in {Black, White, Blue, Rgb(100, 60, 20)}}

InitStats ==
    /\ catalog = CINEMATIC_LOOKS
    /\ upload = None /\ ai_reply = None
    /\ analysis_result = None /\ look = None
    /\ method = NoName /\ transfer = NoName /\ path = NoName
    /\ ref_analysis = None /\ lut_array = None
    /\ cube_content = None /\ lut_report = None /\ response = None
    /\ np_random = Seeded /\ parked = None
    /\ NoGrading
    /\ \/ /\ pc = "image_given"
          /\ source_img \in StatsImages
          /\ reference_img = None
       \/ /\ pc = "reference_given"
          /\ reference_img \in StatsImages
          /\ source_img = None

statsUnchanged ==
    <<upload, ai_reply, analysis_result, look, method, transfer, path, lut_array,
      cube_content, lut_report, catalog, np_random, parked, source_img, reference_img>>

AnalyzeImageCharacteristics ==
    /\ pc = "image_given"
    /\ source_stats' = analyze_image_characteristics(source_img)
    /\ pc' = "characterized"
    /\ UNCHANGED <<statsUnchanged, ref_analysis, response, color_in, reference_stats>>

AnalyzeReferenceColors ==
    /\ pc = "reference_given"
    /\ ref_analysis' = analyze_reference_colors(reference_img)
    /\ pc' = "reference_analyzed"
    /\ UNCHANGED <<statsUnchanged, response, gradingVars>>

EstimateColorTemperature ==
    /\ pc = "image_given"
    /\ response' = [outcome |-> "returned",
                    value |-> estimate_color_temperature(source_img)]
    /\ pc' = "temperature_estimated"
    /\ UNCHANGED <<statsUnchanged, ref_analysis, gradingVars>>

\* the call has come to result
GradingReturns(result) ==
    response' = IF result.ok THEN [outcome |-> "returned", value |-> result.value]
                ELSE [outcome |-> "raised", exc |-> result.exc]

ApplyProfessionalColorGrading ==
    /\ pc = "characterized"
    /\ \E color \in GradeColors, stats \in GradeReferenceStats :
         /\ color_in' = color
         /\ reference_stats' = stats
         /\ GradingReturns(apply_professional_color_grading(color, source_stats, stats))
    /\ pc' = "graded"
    /\ UNCHANGED <<statsUnchanged, ref_analysis, source_stats>>

NextStats ==
    \/ AnalyzeImageCharacteristics \/ AnalyzeReferenceColors
    \/ EstimateColorTemperature \/ ApplyProfessionalColorGrading

SpecStats == InitStats /\ [][NextStats]_vars

Bands == {"shadows", "midtones", "highlights"}

\* the luminance of a pixel whose channels are whole hundredths, in units of
\* 1/100,000
ExactLuminance(p) ==
    299 * (p[1] \div Hundredth) + 587 * (p[2] \div Hundredth)
        + 114 * (p[3] \div Hundredth)

\* the band of a pixel for thresholds lo and hi, given in hundredths
BandOfPixel(p, lo, hi) ==
    IF ExactLuminance(p) < 1000 * lo THEN "shadows"
    ELSE IF ExactLuminance(p) > 1000 * hi THEN "highlights"
    ELSE "midtones"

BandPixels(img, band, lo, hi) ==
    {i \in DOMAIN img : BandOfPixel(img[i], lo, hi) = band}

\* the neutral default of a band: the grey 0.1, 0.5 or 0.9
NeutralDefault(band) ==
    IF band = "shadows" THEN Rgb(10, 10, 10)
    ELSE IF band = "midtones" THEN Rgb(50, 50, 50) ELSE Rgb(90, 90, 90)

\* m is the mean color of the pixels px of img, to the last digit held
IsMeanOf(m, img, px) ==
    \A c \in Chan :
        /\ Cardinality(px) * m[c] <= SumChannel(img, px, c)
        /\ SumChannel(img, px, c) < Cardinality(px) * (m[c] + 1)

\* m is what the extractor of thresholds lo and hi owes for a band of img
IsBandColor(m, img, band, lo, hi) ==
    IF BandPixels(img, band, lo, hi) = {}
    THEN m = NeutralDefault(band)
    ELSE IsMeanOf(m, img, BandPixels(img, band, lo, hi))

\* each pixel of img is in exactly one of the three masks of the thresholds
MasksPartition(img, lo, hi) ==
    \A i \in DOMAIN img :
        Cardinality({band \in Bands :
                        i \in BandMasks(LuminanceOf(img), lo, hi)[band]}) = 1

\* C14: each extractor puts every pixel in exactly one band, the pixels on a
\* threshold in the midtones, and returns for each band the mean RGB of
\* exactly the band's pixels, or the band's neutral grey when the band is
\* empty: analyze_image_characteristics with thresholds 0.25 and 0.75,
\* analyze_reference_colors with 0.3 and 0.7.
BandsPartitionAndAverage ==
    /\ pc = "characterized" =>
          /\ MasksPartition(source_img, Centi(25), Centi(75))
          /\ \A band \in Bands :
                IsBandColor(source_stats[band].rgb_avg, source_img, band, 25, 75)
    /\ pc = "reference_analyzed" =>
          /\ MasksPartition(reference_img, Centi(30), Centi(70))
          /\ \A band \in Bands :
                IsBandColor(ref_analysis.dominant_colors[band], reference_img,
                            band, 30, 70)

\* C14 at work: an image of a black pixel and a pixel of luminance 0.25 has
\* the one as its shadows, the other as its midtones, and no highlights
BandsPartitionAndAverageSeen ==
    /\ pc = "characterized"
    /\ source_img = <<Black, Rgb(25, 25, 25)>>
    /\ source_stats.shadows.rgb_avg = Black
    /\ source_stats.midtones.rgb_avg = Rgb(25, 25, 25)
    /\ source_stats.highlights.rgb_avg = Rgb(90, 90, 90)

\* the mean of a channel of an image
ChannelMean(img, c) == MeanOver([i \in DOMAIN img |-> img[i][c]], DOMAIN img)

\* C15: estimate_color_temperature returns 3200 when the ratio of mean red to
\* mean blue is above 1.1, 6500 when it is below 0.9, and 5500 otherwise: on
\* the ratios 1.1 and 0.9 themselves, and when mean blue is zero.
TemperatureByRatio ==
    pc = "temperature_estimated" =>
        response.value =
            IF ChannelMean(source_img, 3) > 0
                  /\ 10 * ChannelMean(source_img, 1) > 11 * ChannelMean(source_img, 3)
            THEN 3200
            ELSE IF ChannelMean(source_img, 3) > 0
                       /\ 10 * ChannelMean(source_img, 1) < 9 * ChannelMean(source_img, 3)
            THEN 6500
            ELSE 5500

\* C15 at work: mean red 0.55 and mean blue 0.5, a ratio of 1.1, give 5500
TemperatureByRatioSeen ==
    /\ pc = "temperature_estimated"
    /\ source_img = <<Rgb(55, 20, 50)>>
    /\ response.value = 5500

\* the band records the grading of the color at hand reads
GradedBand == GradingBand(luminance(color_in))

\* C16: apply_professional_color_grading limits the shift between the band
\* colors to 0.3 in each channel before it is weighted, and returns a color
\* in [0, 1]^3 that is within 0.15 of its input in each channel.
GradingIsBounded ==
    pc = "graded" =>
        /\ response.outcome = "returned"
        /\ \A c \in Chan :
              /\ Abs(ColorShift(reference_stats[GradedBand].rgb_avg,
                                source_stats[GradedBand].rgb_avg)[c]) <= Centi(30)
              /\ 0 <= response.value[c] /\ response.value[c] <= Scale
              /\ Abs(response.value[c] - color_in[c]) <= Centi(15)

\* C16 at work: a black color is graded from black shadows toward blue ones,
\* a shift of 1.0 in blue that is limited to 0.3, and comes out changed
GradingIsBoundedSeen ==
    /\ pc = "graded"
    /\ color_in = Black
    /\ source_stats.shadows.rgb_avg = Black
    /\ reference_stats.shadows.rgb_avg = Blue
    /\ ColorShift(Blue, Black)[3] = Centi(30)
    /\ response.value # color_in

====
